---- MODULE Spec2Model ----
(***************************************************************************)
(* Model of the LINE bot webhook integration:                              *)
(*   lambda/authorizer/authorizer.py  - the request authorizer             *)
(*   lambda/app.py                    - the webhook handler                *)
(*                                                                         *)
(* Python strings that the code inspects character by character (header   *)
(* names, message texts, file names, content types) are sequences of       *)
(* one-character strings.  Opaque values (header values, reply tokens,     *)
(* ARNs) are TLA+ strings; Python's None is the value NONE.                *)
(***************************************************************************)
EXTENDS Integers, Sequences, FiniteSets, TLC

VARIABLES
    pc,          \* position of the running invocation
    event,       \* the event passed to the running invocation
    env,         \* what the collaborators will answer in this invocation
    signature,   \* handler local: the signature found in the headers
    events,      \* handler local: the events returned by WebhookParser.parse
    idx,         \* handler local: position of the dispatch loop (1-based)
    dl,          \* handle_file_upload local: the download response
    s3_path,     \* handler local: the value handle_file_upload returned
    parseCalls,  \* number of WebhookParser.parse calls in this invocation
    replies,     \* reply_message calls of this invocation, in order
    downloads,   \* requests.get calls of this invocation, in order
    puts,        \* s3.put_object calls of this invocation, in order
    response,    \* what the webhook handler returned (or that it raised)
    authResult   \* what the authorizer returned (or that it raised)

vars == <<pc, event, env, signature, events, idx, dl, s3_path, parseCalls,
          replies, downloads, puts, response, authResult>>

----------------------------------------------------------------------------
(* Bounds *)

MaxEvents == 2

----------------------------------------------------------------------------
(* Python values *)

NONE == "<None>"

\* Python truthiness of a str-or-None value (`if x`, `not x`)
Truthy(v) == v # NONE /\ v # ""

\* Python truthiness of a character sequence
TruthySeq(s) == Len(s) > 0

\* str.lower() on the characters used in header names
LowerChar(c) ==
    CASE c = "X" -> "x"
      [] c = "L" -> "l"
      [] c = "S" -> "s"
      [] c = "C" -> "c"
      [] c = "T" -> "t"
      [] OTHER -> c

Lower(s) == [i \in 1..Len(s) |-> LowerChar(s[i])]

\* the literal 'x-line-signature'
SigHeaderName ==
    <<"x","-","l","i","n","e","-","s","i","g","n","a","t","u","r","e">>

\* Header names a request may carry
HeaderNames ==
    { SigHeaderName,
      <<"X","-","L","i","n","e","-","S","i","g","n","a","t","u","r","e">>,
      <<"C","o","n","t","e","n","t","-","T","y","p","e">> }

\* Header values a request may carry: a signature matching the body, one
\* that does not match, and the empty string
GoodSig == "good"
BadSig == "bad"
HeaderValues == { GoodSig, BadSig, "" }

\* A header map is a sequence of <<name, value>> pairs with distinct names,
\* in the iteration order of the dict
HeaderPairs == { <<k, v>> : k \in HeaderNames, v \in HeaderValues }

\* The maps with no header, one header, and two headers
HeaderMaps ==
    { <<>> } \cup { << p >> : p \in HeaderPairs }
      \cup { h \in { << p, q >> : p \in HeaderPairs, q \in HeaderPairs } :
                h[1][1] # h[2][1] }

\* for key, value in headers.items():
\*     if key and key.lower() == 'x-line-signature': signature = value; break
RECURSIVE ScanFrom(_, _)
ScanFrom(h, i) ==
    IF i > Len(h) THEN NONE
    ELSE IF TruthySeq(h[i][1]) /\ Lower(h[i][1]) = SigHeaderName THEN h[i][2]
    ELSE ScanFrom(h, i + 1)

FindSignature(h) == ScanFrom(h, 1)

HasSigHeader(h) == \E i \in 1..Len(h) : Lower(h[i][1]) = SigHeaderName

----------------------------------------------------------------------------
(* The authorizer: lambda/authorizer/authorizer.py *)

ABSENT == "<absent>"
Arn == "arn:aws:execute-api:webhook"

\* The `headers` entry of an event: key absent, null, a mapping, or a
\* value that is not a mapping (a non-empty list)
HeaderFields ==
    { [tag |-> t, map |-> <<>>] : t \in {"absent", "null", "list"} }
      \cup { [tag |-> "map", map |-> h] : h \in HeaderMaps }

\* The `requestContext` entry of an event, as far as the authorizer reads it
ContextFields ==
    { [tag |-> t, map |-> <<>>] :
          t \in {"absent", "nohttp", "http_noheaders", "http_null"} }
      \cup { [tag |-> "http_map", map |-> h] : h \in HeaderMaps }

MethodArns == { ABSENT, NONE, "", Arn }

NoBody == [malformed |-> FALSE, events |-> <<>>]

AuthEvents ==
    { [headers |-> hf, requestContext |-> [tag |-> "absent", map |-> <<>>],
       methodArn |-> a, body |-> NoBody] :
          hf \in HeaderFields \ { [tag |-> "absent", map |-> <<>>] },
          a \in MethodArns }
      \cup
    { [headers |-> [tag |-> "absent", map |-> <<>>], requestContext |-> rc,
       methodArn |-> a, body |-> NoBody] :
          rc \in ContextFields, a \in MethodArns }

NoContext == [present |-> FALSE, signature |-> NONE]

AuthRaised ==
    [kind |-> "raised", principalId |-> NONE, effect |-> NONE,
     resource |-> NONE, context |-> NoContext]

AuthFault == [AuthRaised EXCEPT !.kind = "fault"]

\* generate_policy: the policy document is attached only when both effect
\* and resource are truthy, the context only when it is given
generate_policy(principal_id, effect, resource, context) ==
    [kind |-> "returned",
     principalId |-> principal_id,
     effect |-> IF Truthy(effect) /\ Truthy(resource) THEN effect ELSE NONE,
     resource |-> IF Truthy(effect) /\ Truthy(resource) THEN resource ELSE NONE,
     context |-> IF context.present THEN context ELSE NoContext]

\* Lines 55-59: the headers the authorizer scans; fault when the value it
\* ends up with has no .items()
AuthExtractHeaders(ev) ==
    CASE ev.headers.tag = "map" -> [fault |-> FALSE, map |-> ev.headers.map]
      [] ev.headers.tag = "null" -> [fault |-> FALSE, map |-> <<>>]
      [] ev.headers.tag = "list" -> [fault |-> TRUE, map |-> <<>>]
      [] ev.requestContext.tag = "http_map" ->
             [fault |-> FALSE, map |-> ev.requestContext.map]
      [] ev.requestContext.tag = "http_noheaders" ->
             [fault |-> FALSE, map |-> <<>>]
      [] ev.requestContext.tag = "http_null" -> [fault |-> TRUE, map |-> <<>>]
      [] OTHER -> [fault |-> FALSE, map |-> <<>>]

\* Lines 53-82: the body of the try block; event['methodArn'] is a KeyError
\* when the key is absent
AuthTry(ev) ==
    LET hs == AuthExtractHeaders(ev)
        sig == FindSignature(hs.map)
    IN  IF hs.fault THEN AuthFault
        ELSE IF ~Truthy(sig)
             THEN IF ev.methodArn = ABSENT THEN AuthFault
                  ELSE generate_policy("user", "Deny", ev.methodArn, NoContext)
             ELSE IF ev.methodArn = ABSENT THEN AuthFault
                  ELSE generate_policy("line-user", "Allow", ev.methodArn,
                                       [present |-> TRUE, signature |-> sig])

\* Lines 49-86: the try block and its except clause, which reads
\* event['methodArn'] again
authorizer_handler(ev) ==
    LET r == AuthTry(ev)
    IN  IF r.kind # "fault" THEN r
        ELSE IF ev.methodArn = ABSENT THEN AuthRaised
             ELSE generate_policy("user", "Deny", ev.methodArn, NoContext)

----------------------------------------------------------------------------
(* The webhook handler: lambda/app.py *)

\* Character sequences of the message texts and file names a request carries
Texts == { <<"h","i">> }
FileNames == { <<"m","y"," ","f","!",".","p","n","g">> }
Tokens == { "r1", "r2" }

\* Parsed events: text messages, file messages, and every other kind of
\* event; some of the other kinds have no reply_token attribute
EventObjects ==
    { [kind |-> "text", reply_token |-> r, text |-> t, file_name |-> <<>>] :
          r \in Tokens, t \in Texts }
      \cup
    { [kind |-> "file", reply_token |-> r, text |-> <<>>, file_name |-> f] :
          r \in Tokens, f \in FileNames }
      \cup
    { [kind |-> "other", reply_token |-> r, text |-> <<>>, file_name |-> <<>>] :
          r \in Tokens \cup { ABSENT } }

RECURSIVE EventSeqsOfLen(_)
EventSeqsOfLen(n) ==
    IF n = 0 THEN { <<>> }
    ELSE { Append(es, e) : es \in EventSeqsOfLen(n - 1), e \in EventObjects }

EventSeqs == UNION { EventSeqsOfLen(n) : n \in 0..MaxEvents }

\* Request bodies: the events the payload carries, or a payload the parser
\* cannot decode
Bodies ==
    { [malformed |-> FALSE, events |-> es] : es \in EventSeqs }
      \cup { [malformed |-> TRUE, events |-> <<>>] }

\* Events the gateway passes to the webhook handler (proxy integration)
HandlerEvents ==
    { [headers |-> hf, requestContext |-> [tag |-> "absent", map |-> <<>>],
       methodArn |-> Arn, body |-> b] :
          hf \in HeaderFields \ { [tag |-> "list", map |-> <<>>] },
          b \in Bodies }

\* Outcomes of secretsmanager.get_secret_value + json.loads
SecretStates == { "ok", "unreachable", "absent", "malformed" }

\* The environment of one invocation: the secret store's answer
Envs == { [secret |-> s] : s \in SecretStates }

NoResponse ==
    [kind |-> "none", statusCode |-> 0, message |-> "", contentType |-> ""]

Raised == [NoResponse EXCEPT !.kind = "raised"]

Returned(status, msg) ==
    [kind |-> "returned", statusCode |-> status, message |-> msg,
     contentType |-> "application/json"]

\* get_secret: raises unless the secret can be fetched and decoded
get_secret(en) == en.secret = "ok"

\* headers = event.get('headers', {}) or {}
HandlerHeaders(ev) == IF ev.headers.tag = "map" THEN ev.headers.map ELSE <<>>

\* Variant: the missing-signature check is left out
SignatureMissing_never(sig) == FALSE

\* if not signature: -> the 400 "Missing x-line-signature header" return
SignatureMissing(sig) == ~Truthy(sig)

\* WebhookParser.parse(body, signature): InvalidSignatureError unless the
\* signature matches the body under the channel secret; then the payload
\* is decoded into events, in order
parse(body, sig) ==
    IF sig # GoodSig THEN [outcome |-> "invalid", events |-> <<>>]
    ELSE IF body.malformed THEN [outcome |-> "error", events |-> <<>>]
    ELSE [outcome |-> "ok", events |-> body.events]

\* Variant: an InvalidSignatureError is swallowed and the request goes on
OnParse_swallow(p) ==
    IF p.outcome = "error"
    THEN [continue |-> FALSE, events |-> <<>>,
          response |-> Returned(500, "Error")]
    ELSE [continue |-> TRUE, events |-> p.events, response |-> NoResponse]

\* Lines 123-149: what the verification block does with the parser's
\* answer: continue with the events, or return 400 / 500
OnParse(p) ==
    CASE p.outcome = "ok" ->
             [continue |-> TRUE, events |-> p.events, response |-> NoResponse]
      [] p.outcome = "invalid" ->
             [continue |-> FALSE, events |-> <<>>,
              response |-> Returned(400, "Invalid signature")]
      [] OTHER ->
             [continue |-> FALSE, events |-> <<>>,
              response |-> Returned(500, "Error")]

\* Variant: the echo loses its prefix
EchoText_bare(t) == t

\* f"You said: {user_message}"
EchoPrefix == <<"Y","o","u"," ","s","a","i","d",":"," ">>
EchoText(t) == EchoPrefix \o t

\* f"File '{file_name}' uploaded successfully!"
SuccessText(f) ==
    <<"F","i","l","e"," ","'">> \o f \o
    <<"'"," ","u","p","l","o","a","d","e","d"," ",
      "s","u","c","c","e","s","s","f","u","l","l","y","!">>

\* "Sorry, there was an error processing your file."
FailureText ==
    <<"S","o","r","r","y",","," ","t","h","e","r","e"," ","w","a","s"," ",
      "a","n"," ","e","r","r","o","r"," ","p","r","o","c","e","s","s","i","n","g",
      " ","y","o","u","r"," ","f","i","l","e",".">>

\* Variant: every reply goes to the first event's token
ReplyToken_first(evs, i) == evs[1].reply_token

\* The reply token a reply for event i is addressed to
ReplyToken(evs, i) == evs[i].reply_token

\* Variant: an exception in the loop turns into a 500
LoopResponse_fail(failed) ==
    IF failed THEN Returned(500, "Error") ELSE Returned(200, "OK")

\* Lines 190-199: the response after the dispatch loop, whether it ran to
\* the end or an exception left it
LoopResponse(failed) == Returned(200, "OK")

----------------------------------------------------------------------------
(* handle_file_upload: download, storage key, upload *)

Image == <<"i","m","a","g","e">>
Audio == <<"a","u","d","i","o">>
Video == <<"v","i","d","e","o">>
ApplicationPdf == <<"a","p","p","l","i","c","a","t","i","o","n","/","p","d","f">>

\* Content-Type headers the content endpoint may answer with
ContentTypes ==
    { <<"i","m","a","g","e","/","p","n","g">>, ApplicationPdf, Image }

\* uuid.uuid4().hex[:8]
HexPrefixes ==
    { <<"0","a","1","b","2","c","3","d">>, <<"f","f","0","0","9","9","e","e">> }

\* Answers of requests.get: an exception, or a response
DownloadOutcomes ==
    { [exception |-> TRUE, status |-> 0, content_type |-> <<>>] }
      \cup { [exception |-> FALSE, status |-> st, content_type |-> <<>>] :
               st \in {404} }
      \cup { [exception |-> FALSE, status |-> 200, content_type |-> ct] :
               ct \in ContentTypes }

NoDownload == [exception |-> FALSE, status |-> 0, content_type |-> <<>>]

\* Variant: only server errors count as a failed download
DownloadFailed_5xx(status) == status >= 500

\* if response.status_code != 200: return None
DownloadFailed(status) == status # 200

\* sub in s
Contains(sub, s) ==
    \E i \in 0..(Len(s) - Len(sub)) : SubSeq(s, i + 1, i + Len(sub)) = sub

\* s.split(c)
RECURSIVE Split(_, _)
Split(s, c) ==
    IF \A i \in 1..Len(s) : s[i] # c THEN << s >>
    ELSE LET k == CHOOSE i \in 1..Len(s) :
                      s[i] = c /\ \A j \in 1..(i - 1) : s[j] # c
         IN  << SubSeq(s, 1, k - 1) >> \o Split(SubSeq(s, k + 1, Len(s)), c)

\* Variant: the name is cut at its first '.' (split instead of rsplit)
BeforeFirstDot(s) ==
    IF \A i \in 1..Len(s) : s[i] # "." THEN s
    ELSE LET k == CHOOSE i \in 1..Len(s) :
                      s[i] = "." /\ \A j \in 1..(i - 1) : s[j] # "."
         IN  SubSeq(s, 1, k - 1)

\* s.rsplit('.', 1)[0]
BeforeLastDot(s) ==
    IF \A i \in 1..Len(s) : s[i] # "." THEN s
    ELSE LET k == CHOOSE i \in 1..Len(s) :
                      s[i] = "." /\ \A j \in (i + 1)..Len(s) : s[j] # "."
         IN  SubSeq(s, 1, k - 1)

\* c.isalnum() on the characters used in file names
IsAlnum(c) ==
    c \in { "a","b","c","d","e","f","g","h","i","j","k","l","m","n","o","p",
            "q","r","s","t","u","v","w","x","y","z",
            "0","1","2","3","4","5","6","7","8","9" }

\* ''.join(c for c in name if c.isalnum() or c in '-_')
RECURSIVE Clean(_)
Clean(s) ==
    IF Len(s) = 0 THEN <<>>
    ELSE (IF IsAlnum(s[1]) \/ s[1] \in {"-", "_"} THEN << s[1] >> ELSE <<>>)
           \o Clean(Tail(s))

\* Lines 62-71: the sanitized base name
OriginalName(file_name) ==
    Clean(BeforeLastDot(IF TruthySeq(file_name) THEN file_name
                        ELSE <<"f","i","l","e">>))

\* Lines 74-82: the extension; content_type.split('/')[1] is an IndexError
\* when the content type has no '/'
FileExtension(ct) ==
    IF Contains(Image, ct) \/ Contains(Audio, ct) \/ Contains(Video, ct)
    THEN IF Len(Split(ct, "/")) >= 2
         THEN [fault |-> FALSE, ext |-> Split(ct, "/")[2]]
         ELSE [fault |-> TRUE, ext |-> <<>>]
    ELSE IF Contains(ApplicationPdf, ct)
         THEN [fault |-> FALSE, ext |-> <<"p","d","f">>]
         ELSE [fault |-> FALSE, ext |-> <<"b","i","n">>]

\* f"{uuid.uuid4().hex[:8]}_{original_name}.{file_extension}"
StorageKey(hex, file_name, ct) ==
    hex \o <<"_">> \o OriginalName(file_name) \o <<".">> \o FileExtension(ct).ext

\* f"s3://{bucket_name}/{filename}"
S3Path(key) == <<"s","3",":","/","/","b","/">> \o key

NoPath == <<>>

----------------------------------------------------------------------------
(* State machine *)

NoEvent ==
    [headers |-> [tag |-> "absent", map |-> <<>>],
     requestContext |-> [tag |-> "absent", map |-> <<>>],
     methodArn |-> ABSENT, body |-> NoBody]

NoEnv == [secret |-> "ok"]

NoAuth == [AuthRaised EXCEPT !.kind = "none"]

Init ==
    /\ pc = "idle"
    /\ event = NoEvent
    /\ env = NoEnv
    /\ signature = NONE
    /\ events = <<>>
    /\ idx = 0
    /\ dl = NoDownload
    /\ s3_path = NoPath
    /\ parseCalls = 0
    /\ replies = <<>>
    /\ downloads = <<>>
    /\ puts = <<>>
    /\ response = NoResponse
    /\ authResult = NoAuth

\* Invocations are independent and share no state: each behaviour is one
\* invocation, of the authorizer or of the webhook handler
Idle == pc = "idle"

\* The gateway invokes the authorizer (authorizer.py, handler)
Authorize ==
    /\ Idle
    /\ \E ev \in AuthEvents :
         /\ event' = ev
         /\ authResult' = authorizer_handler(ev)
    /\ pc' = "auth_done"
    /\ env' = NoEnv
    /\ signature' = NONE
    /\ events' = <<>>
    /\ idx' = 0
    /\ dl' = NoDownload
    /\ s3_path' = NoPath
    /\ parseCalls' = 0
    /\ replies' = <<>>
    /\ downloads' = <<>>
    /\ puts' = <<>>
    /\ response' = NoResponse

\* The gateway invokes the webhook handler: credentials, signature header,
\* verification (app.py lines 103-149)
Invoke ==
    /\ Idle
    /\ \E ev \in HandlerEvents, en \in Envs :
         /\ event' = ev
         /\ env' = en
         /\ IF ~get_secret(en)
            THEN /\ response' = Raised
                 /\ pc' = "done"
                 /\ signature' = NONE
                 /\ events' = <<>>
                 /\ idx' = 0
                 /\ parseCalls' = 0
            ELSE LET sig == FindSignature(HandlerHeaders(ev))
                     r == OnParse(parse(ev.body, sig))
                 IN  /\ signature' = sig
                     /\ IF SignatureMissing(sig)
                        THEN /\ response' =
                                  Returned(400, "Missing x-line-signature header")
                             /\ pc' = "done"
                             /\ events' = <<>>
                             /\ idx' = 0
                             /\ parseCalls' = 0
                        ELSE /\ parseCalls' = 1
                             /\ events' = r.events
                             /\ response' = r.response
                             /\ idx' = IF r.continue THEN 1 ELSE 0
                             /\ pc' = IF r.continue THEN "loop" ELSE "done"
    /\ dl' = NoDownload
    /\ s3_path' = NoPath
    /\ replies' = <<>>
    /\ downloads' = <<>>
    /\ puts' = <<>>
    /\ authResult' = NoAuth

\* An exception inside the dispatch loop: the except clause of line 190,
\* then the return of line 195
LeaveLoop ==
    /\ pc' = "done"
    /\ response' = LoopResponse(TRUE)

\* reply_message(token, TextSendMessage(text)); the call may raise
Reply(token, text, ok) ==
    /\ replies' = Append(replies, [idx |-> idx, reply_token |-> token,
                                   text |-> text, ok |-> ok])
    /\ IF ok
       THEN /\ idx' = idx + 1
            /\ pc' = "loop"
            /\ response' = response
       ELSE /\ idx' = idx
            /\ LeaveLoop

\* The loop has no event left: return 200 (lines 195-199)
LoopExit ==
    /\ pc = "loop"
    /\ idx > Len(events)
    /\ pc' = "done"
    /\ response' = LoopResponse(FALSE)
    /\ UNCHANGED <<event, env, signature, events, idx, dl, s3_path, parseCalls,
                   replies, downloads, puts, authResult>>

\* reply_token = event_obj.reply_token on an event without the attribute
DispatchNoToken ==
    /\ pc = "loop"
    /\ idx <= Len(events)
    /\ events[idx].reply_token = ABSENT
    /\ LeaveLoop
    /\ UNCHANGED <<event, env, signature, events, idx, dl, s3_path, parseCalls,
                   replies, downloads, puts, authResult>>

\* A text message: echo it (lines 158-165)
DispatchText ==
    /\ pc = "loop"
    /\ idx <= Len(events)
    /\ events[idx].reply_token # ABSENT
    /\ events[idx].kind = "text"
    /\ \E ok \in BOOLEAN :
         Reply(ReplyToken(events, idx), EchoText(events[idx].text), ok)
    /\ UNCHANGED <<event, env, signature, events, dl, s3_path, parseCalls,
                   downloads, puts, authResult>>

\* A file message: call handle_file_upload (lines 168-176)
DispatchFile ==
    /\ pc = "loop"
    /\ idx <= Len(events)
    /\ events[idx].reply_token # ABSENT
    /\ events[idx].kind = "file"
    /\ pc' = "upload"
    /\ dl' = NoDownload
    /\ s3_path' = NoPath
    /\ UNCHANGED <<event, env, signature, events, idx, parseCalls,
                   replies, downloads, puts, response, authResult>>

\* Any other event: nothing to do
DispatchOther ==
    /\ pc = "loop"
    /\ idx <= Len(events)
    /\ events[idx].reply_token # ABSENT
    /\ events[idx].kind = "other"
    /\ idx' = idx + 1
    /\ UNCHANGED <<pc, event, env, signature, events, dl, s3_path, parseCalls,
                   replies, downloads, puts, response, authResult>>

\* handle_file_upload, lines 44-56: download, status check
Download ==
    /\ pc = "upload"
    /\ \E r \in DownloadOutcomes :
         /\ downloads' = Append(downloads,
                                [idx |-> idx, exception |-> r.exception,
                                 status |-> r.status])
         /\ IF r.exception \/ DownloadFailed(r.status)
            THEN /\ s3_path' = NoPath
                 /\ pc' = "file_reply"
                 /\ dl' = dl
            ELSE /\ dl' = r
                 /\ pc' = "put"
                 /\ s3_path' = s3_path
    /\ UNCHANGED <<event, env, signature, events, idx, parseCalls,
                   replies, puts, response, authResult>>

\* handle_file_upload, lines 58-100: storage key, put_object, result
PutObject ==
    /\ pc = "put"
    /\ IF FileExtension(dl.content_type).fault
       THEN /\ s3_path' = NoPath
            /\ puts' = puts
       ELSE \E hex \in HexPrefixes, ok \in BOOLEAN :
              LET key == StorageKey(hex, events[idx].file_name, dl.content_type)
              IN  /\ puts' = Append(puts,
                                    [idx |-> idx, key |-> key,
                                     content_type |-> dl.content_type,
                                     ok |-> ok])
                  /\ s3_path' = IF ok THEN S3Path(key) ELSE NoPath
    /\ pc' = "file_reply"
    /\ UNCHANGED <<event, env, signature, events, idx, dl, parseCalls,
                   replies, downloads, response, authResult>>

\* The reply to a file message (lines 178-189)
FileReply ==
    /\ pc = "file_reply"
    /\ \E ok \in BOOLEAN :
         Reply(ReplyToken(events, idx),
               IF TruthySeq(s3_path) THEN SuccessText(events[idx].file_name)
               ELSE FailureText,
               ok)
    /\ UNCHANGED <<event, env, signature, events, dl, s3_path, parseCalls,
                   downloads, puts, authResult>>

Step ==
    \/ LoopExit
    \/ DispatchNoToken
    \/ DispatchText
    \/ DispatchFile
    \/ DispatchOther
    \/ Download
    \/ PutObject
    \/ FileReply

Next ==
    \/ Authorize
    \/ Invoke
    \/ LoopExit
    \/ DispatchNoToken
    \/ DispatchText
    \/ DispatchFile
    \/ DispatchOther
    \/ Download
    \/ PutObject
    \/ FileReply

Spec == Init /\ [][Next]_vars

----------------------------------------------------------------------------
(* The storage key of handle_file_upload, over a wider range of declared   *)
(* file names and content types: the invocation is taken up where the      *)
(* download of a request's only event, a file message, has returned 200    *)

\* Declared file names
KeyFileNames ==
    { <<"m","y"," ","f","i","l","e","!",".","p","n","g">>,
      <<>>,
      <<"a",".","b",".","c">>,
      <<"r","-","1","_","2">>,
      <<"x","/","y"," ","z",".","t","x","t">>,
      <<".","r","c">> }

\* Content-Type headers of the download response
KeyContentTypes ==
    { <<"i","m","a","g","e","/","p","n","g">>,
      <<"a","u","d","i","o","/","m","p","e","g">>,
      <<"v","i","d","e","o","/","m","p","4">>,
      <<"a","p","p","l","i","c","a","t","i","o","n","/","p","d","f">>,
      <<"t","e","x","t","/","p","l","a","i","n">>,
      <<>>,
      <<"i","m","a","g","e">>,
      <<"a","p","p","l","i","c","a","t","i","o","n","/","v","n","d",".","o","a","s","i","s",".","o","p","e","n","d","o","c","u","m","e","n","t",".","i","m","a","g","e">> }

KeyFileEvent(f) ==
    [kind |-> "file", reply_token |-> "r1", text |-> <<>>, file_name |-> f]

KeyInit ==
    \E f \in KeyFileNames, ct \in KeyContentTypes :
        /\ pc = "put"
        /\ event = [headers |-> [tag |-> "map",
                                 map |-> << <<SigHeaderName, GoodSig>> >>],
                    requestContext |-> [tag |-> "absent", map |-> <<>>],
                    methodArn |-> Arn,
                    body |-> [malformed |-> FALSE,
                              events |-> << KeyFileEvent(f) >>]]
        /\ env = [secret |-> "ok"]
        /\ signature = GoodSig
        /\ events = << KeyFileEvent(f) >>
        /\ idx = 1
        /\ dl = [exception |-> FALSE, status |-> 200, content_type |-> ct]
        /\ s3_path = NoPath
        /\ parseCalls = 1
        /\ replies = <<>>
        /\ downloads = << [idx |-> 1, exception |-> FALSE, status |-> 200] >>
        /\ puts = <<>>
        /\ response = NoResponse
        /\ authResult = NoAuth

KeyNext ==
    \/ PutObject
    \/ FileReply
    \/ LoopExit

KeySpec == KeyInit /\ [][KeyNext]_vars

----------------------------------------------------------------------------
(* Properties *)

\* The running invocation is one of the webhook handler
InHandler == pc \in {"loop", "upload", "put", "file_reply", "done"}

AuthDone == pc = "auth_done"

OK200 ==
    [kind |-> "returned", statusCode |-> 200, message |-> "OK",
     contentType |-> "application/json"]

NoSideEffects == replies = <<>> /\ downloads = <<>> /\ puts = <<>>

\* The request of the running handler invocation has no signature header
NoSigHeader == ~HasSigHeader(HandlerHeaders(event))

\* Verification succeeded in the running handler invocation
Verified ==
    /\ InHandler
    /\ parseCalls = 1
    /\ signature = GoodSig
    /\ ~event.body.malformed

\* Verification signalled InvalidSignature in the running invocation
SignalledInvalid == InHandler /\ parseCalls = 1 /\ signature # GoodSig

RepliesFor(i) == { k \in 1..Len(replies) : replies[k].idx = i }
DownloadsFor(i) == { k \in 1..Len(downloads) : downloads[k].idx = i }
PutsFor(i) == { k \in 1..Len(puts) : puts[k].idx = i }

\* The dispatch loop has reached event i and is through with it
Processed(i) == idx > i \/ (idx = i /\ pc = "done")

C2_InvalidSignatureRejected ==
    /\ SignalledInvalid =>
          /\ pc = "done"
          /\ response.kind = "returned"
          /\ response.statusCode = 400
          /\ response.message = "Invalid signature"
          /\ NoSideEffects
    /\ ~NoSideEffects => Verified

C2_Witness ==
    /\ pc = "done"
    /\ parseCalls = 1
    /\ signature = BadSig
    /\ Len(event.body.events) > 0
    /\ response.statusCode = 400

\* Processing of event i failed: its reply raised, its download failed, or
\* its upload failed
EventFailed(i) ==
    \/ \E k \in RepliesFor(i) : ~replies[k].ok
    \/ \E k \in DownloadsFor(i) :
          downloads[k].exception \/ downloads[k].status # 200
    \/ \E k \in PutsFor(i) : ~puts[k].ok

\* C3: when processing of an event fails, every later text or file message
\* event of the request still gets its reply attempt.
C3_SiblingsProcessed ==
    (pc = "done" /\ Verified) =>
        \A i, j \in 1..Len(events) :
            (i < j /\ EventFailed(i) /\ events[j].kind \in {"text", "file"})
                => RepliesFor(j) # {}

\* C4: when credential resolution fails the handler invocation ends by
\* returning a 500 response.
C4_CredentialFailure500 ==
    (pc = "done" /\ env.secret # "ok") =>
        response.kind = "returned" /\ response.statusCode = 500

\* What is left of the invocation: the events not yet dispatched, and the
\* stages of the current one
StageRank ==
    CASE pc = "loop" -> 4
      [] pc = "upload" -> 3
      [] pc = "put" -> 2
      [] pc = "file_reply" -> 1
      [] OTHER -> 0

Remaining ==
    IF pc = "done" THEN 0 ELSE 4 * (Len(events) + 1 - idx) + StageRank

\* C5: once verification has succeeded the invocation terminates and returns
\* 200 with body {"message": "OK"}, whatever the events and whichever of the
\* reply, download and storage operations fail: until it has returned 200
\* the handler always has a next step, and every step brings it closer to
\* the return.
C5_AlwaysAck ==
    /\ [](Verified =>
            \/ pc = "done" /\ response = OK200
            \/ pc # "done" /\ response = NoResponse /\ ENABLED Step)
    /\ [][Verified => (Verified' /\ Remaining' < Remaining /\ Remaining' >= 0)]_vars

C5_Witness ==
    /\ pc = "done"
    /\ Verified
    /\ Len(events) = 2
    /\ \E k \in 1..Len(replies) : ~replies[k].ok
    /\ \E k \in 1..Len(downloads) : downloads[k].status # 200
    /\ response = OK200

\* The headers the authorizer scanned, and the first value under a
\* signature header name
AuthHeaderMap == AuthExtractHeaders(event).map
FirstSigValue ==
    LET h == AuthHeaderMap
        k == CHOOSE i \in 1..Len(h) :
                 /\ Lower(h[i][1]) = SigHeaderName
                 /\ \A j \in 1..(i - 1) : Lower(h[j][1]) # SigHeaderName
    IN  h[k][2]

\* C6: for a request that carries a method ARN, the authorizer returns Deny
\* when there is no signature header, and Allow with the raw signature value
\* in the context when there is one, whatever its value.
C6_AllowIffHeaderPresent ==
    (AuthDone /\ event.methodArn = Arn) =>
        IF HasSigHeader(AuthHeaderMap)
        THEN /\ authResult.kind = "returned"
             /\ authResult.effect = "Allow"
             /\ authResult.context.present
             /\ authResult.context.signature = FirstSigValue
        ELSE /\ authResult.kind = "returned"
             /\ authResult.effect = "Deny"

\* C7: the authorizer always ends with an Allow or a Deny policy; on an
\* internal fault it returns Deny and does not raise.
C7_AllowOrDeny ==
    AuthDone =>
        /\ authResult.kind = "returned"
        /\ authResult.effect \in {"Allow", "Deny"}

\* C8: reply_message is called at most once per event, with that event's own
\* reply token, and never for an event that is neither a text nor a file
\* message.
C8_ReplyTokenOnce ==
    /\ \A k \in 1..Len(replies) :
          /\ replies[k].idx \in 1..Len(events)
          /\ events[replies[k].idx].kind \in {"text", "file"}
          /\ replies[k].reply_token = events[replies[k].idx].reply_token
    /\ \A i \in 1..Len(events) : Cardinality(RepliesFor(i)) <= 1

C8_Witness ==
    /\ pc = "done"
    /\ Len(events) = 2
    /\ events[1].kind = "other"
    /\ events[1].reply_token # ABSENT
    /\ events[1].reply_token # events[2].reply_token
    /\ Len(replies) = 1
    /\ replies[1].idx = 2

\* C9: a text message event with text t and reply token r that the dispatch
\* loop has reached gets exactly one reply, "You said: " followed by t,
\* addressed to r.
C9_EchoReply ==
    \A i \in 1..Len(events) :
        (events[i].kind = "text" /\ Processed(i)) =>
            /\ Cardinality(RepliesFor(i)) = 1
            /\ \A k \in RepliesFor(i) :
                  /\ replies[k].reply_token = events[i].reply_token
                  /\ Len(replies[k].text) = 10 + Len(events[i].text)
                  /\ SubSeq(replies[k].text, 1, 10) =
                        <<"Y","o","u"," ","s","a","i","d",":"," ">>
                  /\ SubSeq(replies[k].text, 11, Len(replies[k].text)) =
                        events[i].text

C9_Witness ==
    /\ pc = "done"
    /\ Len(events) = 2
    /\ events[2].kind = "text"
    /\ events[2].text = <<"h","i">>
    /\ \E k \in 1..Len(replies) :
          /\ replies[k].idx = 2
          /\ replies[k].text =
                <<"Y","o","u"," ","s","a","i","d",":"," ","h","i">>

\* The download for event i failed
DownloadFailedFor(i) ==
    \E k \in DownloadsFor(i) :
        downloads[k].exception \/ downloads[k].status # 200

\* C10: a file message event whose download fails gets no storage write
\* and, once processed, exactly one reply, the failure message, to its own
\* reply token; the invocation still returns 200; a storage write happens at
\* most once per event and only after its download returned 200.
C10_DownloadFailure ==
    /\ \A i \in 1..Len(events) :
          DownloadFailedFor(i) =>
              /\ events[i].kind = "file"
              /\ PutsFor(i) = {}
              /\ Processed(i) =>
                    /\ Cardinality(RepliesFor(i)) = 1
                    /\ \A k \in RepliesFor(i) :
                          /\ replies[k].text = FailureText
                          /\ replies[k].text # SuccessText(events[i].file_name)
                          /\ replies[k].reply_token = events[i].reply_token
              /\ pc = "done" => response = OK200
    /\ \A k \in 1..Len(puts) :
          /\ Cardinality(PutsFor(puts[k].idx)) = 1
          /\ \E d \in DownloadsFor(puts[k].idx) :
                ~downloads[d].exception /\ downloads[d].status = 200

C10_Witness ==
    /\ pc = "done"
    /\ Len(events) = 2
    /\ DownloadFailedFor(1)
    /\ \E k \in RepliesFor(1) : replies[k].ok /\ replies[k].text = FailureText
    /\ Len(puts) = 1
    /\ puts[1].idx = 2
    /\ response = OK200

HexDigits ==
    { "0","1","2","3","4","5","6","7","8","9","a","b","c","d","e","f" }

\* The characters a base name keeps
KeptChar(c) ==
    c \in { "a","b","c","d","e","f","g","h","i","j","k","l","m","n","o","p",
            "q","r","s","t","u","v","w","x","y","z",
            "0","1","2","3","4","5","6","7","8","9","-","_" }

\* Positions of character c in s
PositionsOf(c, s) == { i \in 1..Len(s) : s[i] = c }

Largest(S) == CHOOSE m \in S : \A n \in S : n <= m
Smallest(S) == CHOOSE m \in S : \A n \in S : m <= n

\* The name truncated at its last '.', the other characters removed
ExpectedBase(n) ==
    LET dots == PositionsOf(".", n)
        stem == IF dots = {} THEN n ELSE SubSeq(n, 1, Largest(dots) - 1)
    IN  SelectSeq(stem, KeptChar)

\* The word w occurs in s
Occurs(w, s) ==
    \E i \in 1..Len(s) :
        /\ i + Len(w) - 1 <= Len(s)
        /\ \A j \in 1..Len(w) : s[i + j - 1] = w[j]

\* The part of a content type before its first '/', and the part after it
\* up to the next '/'
TypeOf(ct) ==
    LET sl == PositionsOf("/", ct)
    IN  IF sl = {} THEN ct ELSE SubSeq(ct, 1, Smallest(sl) - 1)

SubtypeOf(ct) ==
    LET sl == PositionsOf("/", ct)
        p == Smallest(sl)
        later == { i \in sl : i > p }
    IN  SubSeq(ct, p + 1, IF later = {} THEN Len(ct) ELSE Smallest(later) - 1)

\* The extension as the claim states it
StatedExt(ct) ==
    IF TypeOf(ct) \in { <<"i","m","a","g","e">>, <<"a","u","d","i","o">>,
                        <<"v","i","d","e","o">> } /\ PositionsOf("/", ct) # {}
    THEN SubtypeOf(ct)
    ELSE IF ct = <<"a","p","p","l","i","c","a","t","i","o","n","/","p","d","f">>
         THEN <<"p","d","f">>
         ELSE <<"b","i","n">>

\* The extension the code derives
DerivedExt(ct) ==
    IF \/ Occurs(<<"i","m","a","g","e">>, ct)
       \/ Occurs(<<"a","u","d","i","o">>, ct)
       \/ Occurs(<<"v","i","d","e","o">>, ct)
    THEN SubtypeOf(ct)
    ELSE IF Occurs(<<"a","p","p","l","i","c","a","t","i","o","n","/","p","d","f">>, ct)
         THEN <<"p","d","f">>
         ELSE <<"b","i","n">>

KeyHasForm(key, base, ext) ==
    /\ Len(key) = 8 + 1 + Len(base) + 1 + Len(ext)
    /\ \A i \in 1..8 : key[i] \in HexDigits
    /\ key[9] = "_"
    /\ SubSeq(key, 10, 9 + Len(base)) = base
    /\ key[10 + Len(base)] = "."
    /\ SubSeq(key, 11 + Len(base), Len(key)) = ext

====
